---- MODULE Spec2Model ----
(***************************************************************************)
(* A model of the BrainFuck interpreter of esolangs_py/lib/brainfuck.py.   *)
(*                                                                         *)
(* The interpreter keeps its whole state in module-level globals (ARRAY,   *)
(* IPTR, DPTR, JUMP_TABLE, INSTRUCTIONS, COMMANDS); interpret() parses the *)
(* script (parse_instructions / filter_instructions) and then runs the     *)
(* loop of run().  The model has one action for the call of interpret      *)
(* with its parse, one action per command executed in one pass of the loop *)
(* of run(), one for the faulting fetch and one for the clean return.      *)
(*                                                                         *)
(* Positions (IPTR, DPTR, jump-table keys and values) are 0-based as in    *)
(* the source; TLA+ sequences are 1-based, so INSTRUCTIONS[IPTR] of the    *)
(* source is INSTRUCTIONS[IPTR + 1] here.                                  *)
(***************************************************************************)
EXTENDS Integers, Sequences, FiniteSets, TLC

\* ---------------------------------------------------------------- bounds

\* Number of cells of the model's memory (the source has 30_000).
MemSize == 7
\* Number of interpret() calls made in one process.
MaxCalls == 2
\* Number of passes of the loop of run() followed within one call.
MaxSteps == 9

\* ------------------------------------------------------------- constants

BF_DEFAULT_MEMORY_SIZE == MemSize
\* Cells are bytes: (x) & 0xFF is x modulo 256.
ByteRange == 256

\* ----------------------------------------------------------------- state

VARIABLES
    ARRAY,          \* bytearray(BF_DEFAULT_MEMORY_SIZE): 0-based index -> 0..255
    IPTR,           \* instruction pointer
    DPTR,           \* data pointer
    JUMP_TABLE,     \* dict: bracket position -> position of its opposite
    INSTRUCTIONS,   \* instruction buffer (a sequence of characters)
    COMMANDS,       \* the keys of the COMMANDS dict
    stdin,          \* characters still to be read from stdin (code points)
    stdout,         \* bytes written to stdout, in order
    stderr,         \* lines written to stderr, in order
    pc,             \* "idle": no call in progress; "run": inside run()
    outcome,        \* how the last call ended, or "running"
    script,         \* arguments of the current (or last) call of interpret
    strip_instructions,
    dump_state,
    calls,          \* number of interpret() calls made so far
    steps           \* passes of the loop of run() made in the current call

vars == <<ARRAY, IPTR, DPTR, JUMP_TABLE, INSTRUCTIONS, COMMANDS, stdin, stdout,
          stderr, pc, outcome, script, strip_instructions, dump_state, calls,
          steps>>

\* ------------------------------------------------------- memory and cells

Cells == 0 .. (BF_DEFAULT_MEMORY_SIZE - 1)

\* ARRAY[d] of a Python bytearray: a negative index counts from the end, and
\* an index outside -len .. len-1 raises IndexError.
HasCell(d) == d >= 0 - BF_DEFAULT_MEMORY_SIZE /\ d < BF_DEFAULT_MEMORY_SIZE

CellIndex(d) == IF d < 0 THEN d + BF_DEFAULT_MEMORY_SIZE ELSE d

CellAt(d) == ARRAY[CellIndex(d)]

\* x & 0xFF for an integer x >= -1 (Python's & on a negative int is the
\* two's complement one: -1 & 0xFF = 255).
Mask8(x) == x % ByteRange

\* ------------------------------------------------------------- commands

BaseCommands == {"+", "-", ">", "<", ".", ",", "[", "]"}

\* The function a character is bound to in COMMANDS (COMMANDS.get(char)).
Registered(char) == char \in COMMANDS

\* ------------------------------------------------- filter_instructions

\* JUMP_TABLE[k] = v on a dict.
JumpPut(jt, k, v) == [x \in (DOMAIN jt) \cup {k} |-> IF x = k THEN v ELSE jt[x]]

\* Only the closing bracket's entry is written (mutation of RecordPair).
RecordPairOneWay(jt, idx, opening) == JumpPut(jt, idx, opening)

\* case ']' with a non-empty stack: JUMP_TABLE[idx] = opening and then
\* JUMP_TABLE[opening] = idx.
RecordPair(jt, idx, opening) == JumpPut(JumpPut(jt, idx, opening), opening, idx)

\* keep is None, or char in keep: the character is yielded.
Yielded(char, keep) == keep.none \/ char \in keep.chars

\* A position counted from 1 (mutation of MissingOpeningAt).
MissingOpeningAtOneBased(idx) == idx + 1

\* The position named by "Missing opening bracket for ']' at {idx}".
MissingOpeningAt(idx) == idx

\* The state of the generator: the deque of pending '[' positions, the jump
\* table as written so far, the characters yielded so far and, when the
\* SyntaxError for a ']' was raised, the position it names (otherwise -1).
\* One pass of the loop over enumerate(instructions), for the character at
\* idx: the match statement and then the yield.
ScanChar(instructions, keep, idx, st) ==
    LET char == instructions[idx + 1]
        yield(s) == IF Yielded(char, keep)
                      THEN [s EXCEPT !.kept = Append(@, char)] ELSE s
    IN  IF char = "["
          THEN yield([st EXCEPT !.stack = Append(@, idx)])
        ELSE IF char = "]"
          THEN IF Len(st.stack) = 0
                 THEN [st EXCEPT !.fault = MissingOpeningAt(idx)]
                 ELSE LET opening == st.stack[Len(st.stack)]
                      IN  yield([st EXCEPT
                                   !.stack = SubSeq(@, 1, Len(@) - 1),
                                   !.jt = RecordPair(@, idx, opening)])
        ELSE yield(st)

\* The passes for the positions lo .. hi-1 in order, none after the one
\* that raised.  (The range is halved to keep the evaluation shallow; the
\* passes and their order are those of the loop.)
RECURSIVE ScanRange(_, _, _, _, _)
ScanRange(instructions, keep, lo, hi, st) ==
    IF st.fault >= 0 \/ hi <= lo THEN st
    ELSE IF hi = lo + 1 THEN ScanChar(instructions, keep, lo, st)
    ELSE LET mid == (lo + hi) \div 2
         IN  ScanRange(instructions, keep, mid, hi,
                       ScanRange(instructions, keep, lo, mid, st))

filter_instructions(instructions, keep, jt) ==
    ScanRange(instructions, keep, 0, Len(instructions),
              [stack |-> <<>>, jt |-> jt, kept |-> <<>>, fault |-> -1])

\* Only the first pending position is printed (mutation of MissingClosing).
MissingClosingFirstOnly(stack) ==
    [i \in 1 .. 1 |-> [tag |-> "MissingClosing", at |-> stack[1],
                       dptr |-> 0, cells |-> <<>>]]

\* The lines "Missing closing bracket for '[' at {opening}" printed for the
\* positions left on the stack, in the deque's order.
MissingClosing(stack) ==
    [i \in 1 .. Len(stack) |-> [tag |-> "MissingClosing", at |-> stack[i],
                                dptr |-> 0, cells |-> <<>>]]

\* ---------------------------------------------------- parse_instructions

\* The keep set chosen at lines 171-174.
KeepFor(strip, cmds) ==
    IF strip /\ ARRAY[0] # 0
      THEN [none |-> FALSE, chars |-> cmds]
      ELSE [none |-> TRUE, chars |-> {}]

\* COMMANDS after lines 167-169.
CommandsFor(dump) == IF dump THEN COMMANDS \cup {"#"} ELSE COMMANDS

Outcome(kind, at) == [kind |-> kind, at |-> at]

\* ------------------------------------------------------------ the inputs

Repeat(char, n) == [i \in 1 .. n |-> char]

\* The scripts interpret() is called with.
Scripts ==
    { <<"-", ".">>,                       \* wraps 0 to 255 and prints it
      <<"-", "+">>,                       \* wraps 255 back to 0
      <<"+">>,
      <<"+", "x", "+", ".">>,             \* an unrecognized character
      <<"!", "+", "x", "+", ".">>,        \* the strip marker first
      <<"x", "[", "-", "]">>,             \* brackets behind a dropped character
      <<"+", "[", "-", "]", ".">>,        \* a loop that ends
      <<"[", "[", "]", "]", "[", "]">>,   \* nested and sequential pairs
      <<"+", "[", ".", "]">>,             \* a loop that does not end
      <<"]">>,
      <<"[", "]", "]">>,
      <<"[", "[">>,
      <<"[", "[", "]">>,
      <<",">>,                            \* one read
      <<"+", ",", ".">>,                  \* a read into a cell that holds 1
      <<",", ",", ",">>,
      <<"<">>,
      <<">", "<", "-">>,
      <<"x", "x", "+", "<">>,
      <<"#">>,
      <<">", "#", "+", "#">>,
      Repeat(">", BF_DEFAULT_MEMORY_SIZE - 1) \o <<"+", "#">>,
      Repeat(">", BF_DEFAULT_MEMORY_SIZE),
      Repeat("x", BF_DEFAULT_MEMORY_SIZE - 1) \o <<"+", ".", "#">>,
      << >> }

\* What stdin holds when the process starts: code points of the characters
\* stdin.read(1) returns, an empty sequence being end-of-file at once.
Inputs == { << >>, <<65>>, <<0, 200>> }

\* --------------------------------------------------------------- Init

Init ==
    /\ ARRAY = [i \in Cells |-> 0]
    /\ IPTR = 0
    /\ DPTR = 0
    /\ JUMP_TABLE = << >>
    /\ INSTRUCTIONS = << >>
    /\ COMMANDS = BaseCommands
    /\ stdin \in Inputs
    /\ stdout = << >>
    /\ stderr = << >>
    /\ pc = "idle"
    /\ outcome = Outcome("none", -1)
    /\ script = << >>
    /\ strip_instructions = FALSE
    /\ dump_state = FALSE
    /\ calls = 0
    /\ steps = 0

\* ------------------------------------------- interpret: the call, the parse

\* interpret(script, strip_instructions, dump_state) up to the call of run():
\* parse_instructions registers '#', chooses keep and consumes the generator.
\* A SyntaxError leaves INSTRUCTIONS as it was (the assignment of line 176 is
\* never reached) but keeps what the generator wrote to JUMP_TABLE.
Interpret(s, strip, dump) ==
    /\ pc = "idle"
    /\ calls < MaxCalls
    /\ LET cmds == CommandsFor(dump)
           r == filter_instructions(s, KeepFor(strip, cmds), JUMP_TABLE)
       IN  /\ COMMANDS' = cmds
           /\ JUMP_TABLE' = r.jt
           /\ IF r.fault >= 0
                THEN /\ outcome' = Outcome("SyntaxError", r.fault)
                     /\ pc' = "idle"
                     /\ UNCHANGED <<INSTRUCTIONS, stderr>>
              ELSE IF Len(r.stack) # 0
                THEN /\ stderr' = stderr \o MissingClosing(r.stack)
                     /\ outcome' = Outcome("SyntaxError", -1)
                     /\ pc' = "idle"
                     /\ UNCHANGED INSTRUCTIONS
              ELSE /\ INSTRUCTIONS' = r.kept
                   /\ outcome' = Outcome("running", -1)
                   /\ pc' = "run"
                   /\ UNCHANGED stderr
    /\ script' = s
    /\ strip_instructions' = strip
    /\ dump_state' = dump
    /\ calls' = calls + 1
    /\ steps' = 0
    /\ UNCHANGED <<ARRAY, IPTR, DPTR, stdin, stdout>>

\* The "Hello" program: the script of the end-to-end run, the kind of file
\* tests/bf_hello_world-test.py reads and passes to interpret.
HelloWorld ==
    <<"+","+","+","+","+","+","+","+","[",">","+","+","+","+","[",">","+","+",
      ">","+","+","+",">","+","+","+",">","+","<","<","<","<","-","]",">","+",
      ">","+",">","-",">",">","+","[","<","]","<","-","]",">",">",".",">","-",
      "-","-",".","+","+","+","+","+","+","+",".",".","+","+","+",".">>

\* Number of passes of the loop of run() followed in a call of HelloWorld.
HelloPasses == 900

\* The passes followed in the current call.
PassLimit == IF script = HelloWorld THEN HelloPasses ELSE MaxSteps

\* ------------------------------------------------------ run: one loop pass

\* A loop test that also stops past the end (mutation of LoopDone).
LoopDoneLoose == IPTR >= Len(INSTRUCTIONS)

\* while IPTR != len(INSTRUCTIONS)
LoopDone == IPTR = Len(INSTRUCTIONS)

\* The pass fetches INSTRUCTIONS[IPTR]: the loop goes on, IPTR is not
\* negative (lines 188-189) and the index is inside the string (line 191).
Fetches == /\ pc = "run"
           /\ steps < PassLimit
           /\ ~LoopDone
           /\ IPTR >= 0
           /\ IPTR < Len(INSTRUCTIONS)

Command == INSTRUCTIONS[IPTR + 1]

\* The pass runs the function COMMANDS binds to char.
Executes(char) == Fetches /\ Command = char /\ Registered(char)

\* An exception leaves run() and interpret(): IPTR += 1 is not reached.
Raise(kind) == /\ pc' = "idle"
               /\ outcome' = Outcome(kind, -1)
               /\ UNCHANGED IPTR

\* An increment that is applied twice (mutation of NextInstruction).
NextInstructionTwice(iptr) == /\ IPTR' = iptr + 2
                              /\ UNCHANGED <<pc, outcome>>

\* IPTR += 1 after the command returned (line 194).
NextInstruction(iptr) == /\ IPTR' = iptr + 1
                         /\ UNCHANGED <<pc, outcome>>

Pass == steps' = steps + 1

\* A bound test that is off by one (mutation of PastEnd).
PastEndLoose(d) == d > BF_DEFAULT_MEMORY_SIZE

\* if DPTR >= BF_DEFAULT_MEMORY_SIZE, tested on the moved pointer (line 39).
PastEnd(d) == d >= BF_DEFAULT_MEMORY_SIZE

\* if DPTR < 0, tested on the moved pointer (line 46).
BeforeStart(d) == d < 0

\* move_forwards: DPTR is moved first and tested after.
StepForward ==
    /\ Executes(">")
    /\ DPTR' = DPTR + 1
    /\ IF PastEnd(DPTR + 1) THEN Raise("IndexError") ELSE NextInstruction(IPTR)
    /\ Pass
    /\ UNCHANGED <<ARRAY, JUMP_TABLE, INSTRUCTIONS, COMMANDS, stdin, stdout,
                   stderr, script, strip_instructions, dump_state, calls>>

\* move_backwards: DPTR is moved first and tested after.
StepBackward ==
    /\ Executes("<")
    /\ DPTR' = DPTR - 1
    /\ IF BeforeStart(DPTR - 1) THEN Raise("IndexError") ELSE NextInstruction(IPTR)
    /\ Pass
    /\ UNCHANGED <<ARRAY, JUMP_TABLE, INSTRUCTIONS, COMMANDS, stdin, stdout,
                   stderr, script, strip_instructions, dump_state, calls>>

\* An increment that forgets the mask (mutation of Increased).
IncreasedNoMask(v) == v + 1

\* (ARRAY[DPTR]+1) & 0xFF
Increased(v) == Mask8(v + 1)

\* A decrement that stops at 0 (mutation of Decreased).
DecreasedSaturating(v) == IF v = 0 THEN 0 ELSE v - 1

\* (ARRAY[DPTR]-1) & 0xFF
Decreased(v) == Mask8(v - 1)

\* increase_cell; ARRAY[DPTR] raises IndexError when DPTR names no cell.
StepIncrease ==
    /\ Executes("+")
    /\ IF HasCell(DPTR)
         THEN /\ ARRAY' = [ARRAY EXCEPT ![CellIndex(DPTR)] = Increased(@)]
              /\ NextInstruction(IPTR)
         ELSE /\ Raise("IndexError")
              /\ UNCHANGED ARRAY
    /\ Pass
    /\ UNCHANGED <<DPTR, JUMP_TABLE, INSTRUCTIONS, COMMANDS, stdin, stdout,
                   stderr, script, strip_instructions, dump_state, calls>>

\* decrease_cell
StepDecrease ==
    /\ Executes("-")
    /\ IF HasCell(DPTR)
         THEN /\ ARRAY' = [ARRAY EXCEPT ![CellIndex(DPTR)] = Decreased(@)]
              /\ NextInstruction(IPTR)
         ELSE /\ Raise("IndexError")
              /\ UNCHANGED ARRAY
    /\ Pass
    /\ UNCHANGED <<DPTR, JUMP_TABLE, INSTRUCTIONS, COMMANDS, stdin, stdout,
                   stderr, script, strip_instructions, dump_state, calls>>

\* output_byte: ARRAY[DPTR].to_bytes(1, "little") written to stdout.
StepOutput ==
    /\ Executes(".")
    /\ IF HasCell(DPTR)
         THEN /\ stdout' = Append(stdout, CellAt(DPTR))
              /\ NextInstruction(IPTR)
         ELSE /\ Raise("IndexError")
              /\ UNCHANGED stdout
    /\ Pass
    /\ UNCHANGED <<ARRAY, DPTR, JUMP_TABLE, INSTRUCTIONS, COMMANDS, stdin,
                   stderr, script, strip_instructions, dump_state, calls>>

\* encode("ascii") of the character read raises UnicodeEncodeError for a
\* code point above 127.
IsAscii(c) == c <= 127

\* An input_byte that stores 0 at end-of-file (mutation of StepInput).
StepInputZeroAtEof ==
    /\ Executes(",")
    /\ IF Len(stdin) = 0
         THEN /\ NextInstruction(IPTR)
              /\ ARRAY' = [ARRAY EXCEPT ![CellIndex(DPTR)] = 0]
              /\ UNCHANGED stdin
         ELSE /\ stdin' = Tail(stdin)
              /\ IF ~IsAscii(Head(stdin))
                   THEN Raise("UnicodeEncodeError") /\ UNCHANGED ARRAY
                 ELSE IF ~HasCell(DPTR)
                   THEN Raise("IndexError") /\ UNCHANGED ARRAY
                 ELSE /\ ARRAY' = [ARRAY EXCEPT ![CellIndex(DPTR)] = Head(stdin)]
                      /\ NextInstruction(IPTR)
    /\ Pass
    /\ UNCHANGED <<DPTR, JUMP_TABLE, INSTRUCTIONS, COMMANDS, stdout,
                   stderr, script, strip_instructions, dump_state, calls>>

\* input_byte: stdin.read(1) consumes a character when there is one; the
\* encoding and then the store into ARRAY[DPTR] may raise.
StepInput ==
    /\ Executes(",")
    /\ IF Len(stdin) = 0
         THEN /\ NextInstruction(IPTR)
              /\ UNCHANGED <<ARRAY, stdin>>
         ELSE /\ stdin' = Tail(stdin)
              /\ IF ~IsAscii(Head(stdin))
                   THEN Raise("UnicodeEncodeError") /\ UNCHANGED ARRAY
                 ELSE IF ~HasCell(DPTR)
                   THEN Raise("IndexError") /\ UNCHANGED ARRAY
                 ELSE /\ ARRAY' = [ARRAY EXCEPT ![CellIndex(DPTR)] = Head(stdin)]
                      /\ NextInstruction(IPTR)
    /\ Pass
    /\ UNCHANGED <<DPTR, JUMP_TABLE, INSTRUCTIONS, COMMANDS, stdout,
                   stderr, script, strip_instructions, dump_state, calls>>

\* A jump that stays on the bracket (mutation of JumpTarget).
JumpTargetSelf(iptr) == iptr

\* IPTR = JUMP_TABLE[IPTR]: a missing key raises KeyError.
HasJump(iptr) == iptr \in DOMAIN JUMP_TABLE

JumpTarget(iptr) == JUMP_TABLE[iptr]

\* jump_closing ('['): jumps when the cell is zero.
StepJumpClosing ==
    /\ Executes("[")
    /\ IF ~HasCell(DPTR) THEN Raise("IndexError")
       ELSE IF CellAt(DPTR) = 0
         THEN IF HasJump(IPTR) THEN NextInstruction(JumpTarget(IPTR))
                               ELSE Raise("KeyError")
       ELSE NextInstruction(IPTR)
    /\ Pass
    /\ UNCHANGED <<ARRAY, DPTR, JUMP_TABLE, INSTRUCTIONS, COMMANDS, stdin, stdout,
                   stderr, script, strip_instructions, dump_state, calls>>

\* jump_opening (']'): jumps when the cell is not zero.
StepJumpOpening ==
    /\ Executes("]")
    /\ IF ~HasCell(DPTR) THEN Raise("IndexError")
       ELSE IF CellAt(DPTR) # 0
         THEN IF HasJump(IPTR) THEN NextInstruction(JumpTarget(IPTR))
                               ELSE Raise("KeyError")
       ELSE NextInstruction(IPTR)
    /\ Pass
    /\ UNCHANGED <<ARRAY, DPTR, JUMP_TABLE, INSTRUCTIONS, COMMANDS, stdin, stdout,
                   stderr, script, strip_instructions, dump_state, calls>>

\* A slice bound of ARRAY[start:end]: a negative bound counts from the end,
\* and the result is clamped to 0 .. len.
SliceBound(i) ==
    IF i < 0
      THEN (IF i + BF_DEFAULT_MEMORY_SIZE < 0 THEN 0 ELSE i + BF_DEFAULT_MEMORY_SIZE)
      ELSE (IF i > BF_DEFAULT_MEMORY_SIZE THEN BF_DEFAULT_MEMORY_SIZE ELSE i)

\* start of output_debug (line 100)
DebugStart(d) == IF d - 5 > 0 THEN d - 5 ELSE d - (5 - (d - 5))

\* end of output_debug (line 101)
DebugEnd(d) ==
    IF d + 5 < BF_DEFAULT_MEMORY_SIZE
      THEN d + 5
      ELSE d + 4 - ((d - 5) % BF_DEFAULT_MEMORY_SIZE)

\* near_cells: the cells of ARRAY[start:end], the one with idx + start = DPTR
\* printed in upper case.
NearCells(d) ==
    LET lo == SliceBound(DebugStart(d))
        hi == SliceBound(DebugEnd(d))
        n  == IF hi > lo THEN hi - lo ELSE 0
    IN  [i \in 1 .. n |-> [val |-> ARRAY[lo + i - 1],
                           upper |-> (i - 1) + DebugStart(d) = d]]

DebugLine == [tag |-> "Debug", at |-> IPTR, dptr |-> DPTR, cells |-> NearCells(DPTR)]

\* An output_debug that indexes ARRAY at start and end instead of slicing
\* it, and so raises where a bound is outside the memory (mutation of
\* StepDebug).
StepDebugIndexed ==
    /\ Executes("#")
    /\ IF DebugStart(DPTR) < 0 \/ DebugEnd(DPTR) >= BF_DEFAULT_MEMORY_SIZE
         THEN Raise("IndexError") /\ UNCHANGED stderr
         ELSE /\ stderr' = Append(stderr, DebugLine)
              /\ NextInstruction(IPTR)
    /\ Pass
    /\ UNCHANGED <<ARRAY, DPTR, JUMP_TABLE, INSTRUCTIONS, COMMANDS, stdin, stdout,
                   script, strip_instructions, dump_state, calls>>

\* output_debug ('#', when registered): prints one line to stderr.
StepDebug ==
    /\ Executes("#")
    /\ stderr' = Append(stderr, DebugLine)
    /\ NextInstruction(IPTR)
    /\ Pass
    /\ UNCHANGED <<ARRAY, DPTR, JUMP_TABLE, INSTRUCTIONS, COMMANDS, stdin, stdout,
                   script, strip_instructions, dump_state, calls>>

\* A lookup COMMANDS[char] that raises for a missing key (mutation of
\* StepSkip).
StepSkipRaises ==
    /\ Fetches
    /\ ~Registered(Command)
    /\ Raise("KeyError")
    /\ Pass
    /\ UNCHANGED <<ARRAY, DPTR, JUMP_TABLE, INSTRUCTIONS, COMMANDS, stdin, stdout,
                   stderr, script, strip_instructions, dump_state, calls>>

\* COMMANDS.get returns None: the character is skipped.
StepSkip ==
    /\ Fetches
    /\ ~Registered(Command)
    /\ NextInstruction(IPTR)
    /\ Pass
    /\ UNCHANGED <<ARRAY, DPTR, JUMP_TABLE, INSTRUCTIONS, COMMANDS, stdin, stdout,
                   stderr, script, strip_instructions, dump_state, calls>>

\* The loop goes on but nothing can be fetched: IPTR < 0 raises the
\* IndexError of line 189, IPTR > len(INSTRUCTIONS) the IndexError of the
\* string index of line 191.
FetchFault ==
    /\ pc = "run"
    /\ ~LoopDone
    /\ (IPTR < 0 \/ IPTR >= Len(INSTRUCTIONS))
    /\ Raise("IndexError")
    /\ UNCHANGED <<ARRAY, DPTR, JUMP_TABLE, INSTRUCTIONS, COMMANDS, stdin, stdout,
                   stderr, script, strip_instructions, dump_state, calls, steps>>

\* The loop ends and interpret returns 0.
Return ==
    /\ pc = "run"
    /\ LoopDone
    /\ pc' = "idle"
    /\ outcome' = Outcome("return", 0)
    /\ UNCHANGED <<ARRAY, IPTR, DPTR, JUMP_TABLE, INSTRUCTIONS, COMMANDS, stdin,
                   stdout, stderr, script, strip_instructions, dump_state, calls,
                   steps>>

Step ==
    \/ StepForward
    \/ StepBackward
    \/ StepIncrease
    \/ StepDecrease
    \/ StepOutput
    \/ StepInput
    \/ StepJumpClosing
    \/ StepJumpOpening
    \/ StepDebug
    \/ StepSkip
    \/ FetchFault
    \/ Return

Call == \E s \in Scripts, strip \in BOOLEAN, dump \in BOOLEAN : Interpret(s, strip, dump)

Next == Call \/ Step

Spec == Init /\ [][Next]_vars


\* ----------------------------------------------------- cell arithmetic

\* The commands that follow the run of '+' in the scripts of SpecCells.
CellTails == { <<"+">>, <<"-">>, <<"+", "-">>, <<"-", "+">>, <<"-", ".">>,
               <<"+", ".">> }

\* A first call interpret("+" * v + tail) of a fresh process, after its
\* first v passes: the cell at DPTR = 0 holds v and IPTR = v.  steps counts
\* the passes made from here on.
InitCells ==
    \E v \in 0 .. (ByteRange - 1), tail \in CellTails :
        /\ ARRAY = [i \in Cells |-> IF i = 0 THEN v ELSE 0]
        /\ IPTR = v
        /\ DPTR = 0
        /\ JUMP_TABLE = << >>
        /\ INSTRUCTIONS = Repeat("+", v) \o tail
        /\ COMMANDS = BaseCommands
        /\ stdin = << >>
        /\ stdout = << >>
        /\ stderr = << >>
        /\ pc = "run"
        /\ outcome = Outcome("running", -1)
        /\ script = Repeat("+", v) \o tail
        /\ strip_instructions = FALSE
        /\ dump_state = FALSE
        /\ calls = 1
        /\ steps = 0

NextCells == StepIncrease \/ StepDecrease \/ StepOutput \/ Return

SpecCells == InitCells /\ [][NextCells]_vars


\* ------------------------------------------------------- the Hello run

\* A process that calls interpret(HelloWorld), with no input.
InitHello == Init /\ stdin = << >>

CallHello == Interpret(HelloWorld, FALSE, FALSE)

NextHello ==
    \/ CallHello
    \/ StepForward
    \/ StepBackward
    \/ StepIncrease
    \/ StepDecrease
    \/ StepOutput
    \/ StepJumpClosing
    \/ StepJumpOpening
    \/ Return

SpecHello == InitHello /\ [][NextHello]_vars


\* ------------------------------------------------------------ the parse

\* Length of the longest source of SpecParse.
MaxSrcLen == 4

SrcAlphabet == {"[", "]", "+", "x"}

\* Every source over SrcAlphabet of at most MaxSrcLen characters.
Sources == UNION { [1 .. n -> SrcAlphabet] : n \in 0 .. MaxSrcLen }

\* The globals of a process that has made no call yet.
FreshGlobals ==
    /\ ARRAY = [i \in Cells |-> 0]
    /\ IPTR = 0
    /\ DPTR = 0
    /\ JUMP_TABLE = << >>
    /\ INSTRUCTIONS = << >>
    /\ calls = 0
    /\ steps = 0

\* The globals of a process whose one call so far was interpret("+").
GlobalsAfterPlus ==
    /\ ARRAY = [i \in Cells |-> IF i = 0 THEN 1 ELSE 0]
    /\ IPTR = 1
    /\ DPTR = 0
    /\ JUMP_TABLE = << >>
    /\ INSTRUCTIONS = <<"+">>
    /\ calls = 1
    /\ steps = 1

\* A process about to call interpret(script, strip_instructions): the
\* arguments of the call are drawn here and the call is the one step.
InitParse ==
    /\ FreshGlobals \/ GlobalsAfterPlus
    /\ COMMANDS = BaseCommands
    /\ stdin = << >>
    /\ stdout = << >>
    /\ stderr = << >>
    /\ pc = "idle"
    /\ outcome = Outcome("none", -1)
    /\ script \in Sources
    /\ strip_instructions \in BOOLEAN
    /\ dump_state = FALSE

ParseDrawn ==
    /\ outcome.kind = "none"
    /\ Interpret(script, strip_instructions, dump_state)

SpecParse == InitParse /\ [][ParseDrawn]_vars

\* ---------------------------------------- brackets, by counting depth

\* The positions lo .. hi (0-based) of s that hold the character c.
Holding(s, c, lo, hi) == {p \in lo .. hi : s[p + 1] = c}

\* '[' minus ']' over the positions lo .. hi of s.
Depth(s, lo, hi) ==
    Cardinality(Holding(s, "[", lo, hi)) - Cardinality(Holding(s, "]", lo, hi))

Min(S) == CHOOSE x \in S : \A y \in S : x <= y
Max(S) == CHOOSE x \in S : \A y \in S : x >= y

\* The ']' that closes the '[' at position i: the first later position at
\* which the depth counted from i is back to 0 (-1 when there is none).
CloserOf(s, i) ==
    LET js == {j \in (i + 1) .. (Len(s) - 1) : Depth(s, i, j) = 0}
    IN  IF js = {} THEN -1 ELSE Min(js)

\* The '[' that the ']' at position j closes (-1 when there is none).
OpenerOf(s, j) ==
    LET is == {i \in 0 .. (j - 1) : s[i + 1] = "[" /\ CloserOf(s, i) = j}
    IN  IF is = {} THEN -1 ELSE Max(is)

PartnerOf(s, p) == IF s[p + 1] = "[" THEN CloserOf(s, p) ELSE OpenerOf(s, p)

BracketPositions(s) == {p \in 0 .. (Len(s) - 1) : s[p + 1] \in {"[", "]"}}

\* The first ']' with no pending '[' before it (-1 when there is none).
FirstUnmatchedClose(s) ==
    LET js == {j \in 0 .. (Len(s) - 1) : Depth(s, 0, j) < 0}
    IN  IF js = {} THEN -1 ELSE Min(js)

\* The '[' that no ']' closes.
UnmatchedOpens(s) ==
    {i \in 0 .. (Len(s) - 1) : s[i + 1] = "[" /\ CloserOf(s, i) = -1}

Balanced(s) == FirstUnmatchedClose(s) = -1 /\ UnmatchedOpens(s) = {}

\* The elements of a finite set of integers in increasing order.
Ascending(S) ==
    CHOOSE q \in [1 .. Cardinality(S) -> S] :
        \A a, b \in 1 .. Cardinality(S) : a < b => q[a] < q[b]

\* ======================================================================
\* Properties
\* ======================================================================

ZeroMemory == [i \in Cells |-> 0]

\* A call of interpret is the step that raises calls.
Called == calls' = calls + 1

\* C1: at the start of every interpret call (a later call and a call after
\* a faulted run included) every cell is 0, DPTR = 0 and IPTR = 0.
C1_FreshStateAtEveryCall ==
    [][Called => (ARRAY = ZeroMemory /\ DPTR = 0 /\ IPTR = 0)]_vars

\* C5: in every reachable state, the state left by an OutOfBounds fault
\* included, DPTR is an index in [0, length-1].
C5_DataPointerInRange == DPTR \in Cells

C3_CellArithmeticWraps ==
    /\ [][/\ (Executes("+") /\ HasCell(DPTR)) =>
               /\ ARRAY' = [ARRAY EXCEPT ![CellIndex(DPTR)] =
                              IF @ = 255 THEN 0 ELSE @ + 1]
               /\ pc' = "run"
          /\ (Executes("-") /\ HasCell(DPTR)) =>
               /\ ARRAY' = [ARRAY EXCEPT ![CellIndex(DPTR)] =
                              IF @ = 0 THEN 255 ELSE @ - 1]
               /\ pc' = "run"]_vars
    /\ []((script = <<"-", ".">> /\ calls = 1 /\ outcome.kind = "return")
            => stdout = <<255>>)

\* C3 witness: "-." has run in a fresh process and has written 255.
C3_Witness ==
    /\ script = <<"-", ".">>
    /\ outcome.kind = "return"
    /\ stdout = <<255>>
    /\ ARRAY[0] = 255

\* C4: '>' at DPTR = length-1 and '<' at DPTR = 0 raise the out-of-bounds
\* IndexError; at every other index of the memory '>' and '<' move DPTR by
\* exactly +1 and -1 and raise nothing.
C4_PointerMoves ==
    [][/\ (Executes(">") /\ DPTR = BF_DEFAULT_MEMORY_SIZE - 1) =>
            (pc' = "idle" /\ outcome'.kind = "IndexError")
       /\ (Executes("<") /\ DPTR = 0) =>
            (pc' = "idle" /\ outcome'.kind = "IndexError")
       /\ (Executes(">") /\ DPTR \in 0 .. (BF_DEFAULT_MEMORY_SIZE - 2)) =>
            (DPTR' = DPTR + 1 /\ pc' = "run" /\ ARRAY' = ARRAY)
       /\ (Executes("<") /\ DPTR \in 1 .. (BF_DEFAULT_MEMORY_SIZE - 1)) =>
            (DPTR' = DPTR - 1 /\ pc' = "run" /\ ARRAY' = ARRAY)]_vars

\* C4 witness: '>' has faulted at the last cell, after moving there.
C4_Witness ==
    /\ pc = "idle"
    /\ outcome.kind = "IndexError"
    /\ IPTR = BF_DEFAULT_MEMORY_SIZE - 1
    /\ INSTRUCTIONS = Repeat(">", BF_DEFAULT_MEMORY_SIZE)
    /\ steps = BF_DEFAULT_MEMORY_SIZE

\* The last call parsed its script and went on to run().
Parsed == outcome.kind \notin {"none", "SyntaxError"}

\* C6: for every source with balanced brackets the parse succeeds and the
\* jump table maps every bracket position of the source to the position of
\* its properly nested partner, so JUMP_TABLE[JUMP_TABLE[i]] = i.
C6_JumpTableMatchesBrackets ==
    (outcome.kind # "none" /\ Balanced(script)) =>
        /\ outcome.kind # "SyntaxError"
        /\ \A i \in BracketPositions(script) :
              /\ i \in DOMAIN JUMP_TABLE
              /\ JUMP_TABLE[i] = PartnerOf(script, i)
              /\ JUMP_TABLE[i] \in DOMAIN JUMP_TABLE
              /\ JUMP_TABLE[JUMP_TABLE[i]] = i

\* C6 witness: the nested source "[[]]" has been parsed.
C6_Witness ==
    /\ script = <<"[", "[", "]", "]">>
    /\ outcome.kind = "running"
    /\ JUMP_TABLE[0] = 3
    /\ JUMP_TABLE[2] = 1

\* C7: a source with a ']' that no earlier '[' is pending for makes
\* interpret raise a SyntaxError naming the position of that ']', before
\* any instruction runs: memory, DPTR, IPTR and stdout are as before.
C7_UnmatchedClosingFails ==
    [][(Called /\ FirstUnmatchedClose(script') # -1) =>
          /\ outcome' = Outcome("SyntaxError", FirstUnmatchedClose(script'))
          /\ pc' = "idle"
          /\ steps' = 0
          /\ ARRAY' = ARRAY
          /\ DPTR' = DPTR
          /\ IPTR' = IPTR
          /\ stdout' = stdout]_vars

\* C7 witness: "[]]" has failed at position 2 in a process whose earlier
\* run left memory, pointers and output behind.
C7_Witness ==
    /\ script = <<"[", "]", "]">>
    /\ outcome = Outcome("SyntaxError", 2)
    /\ ARRAY[0] # 0
    /\ IPTR # 0
    /\ stdout # << >>

\* The lines written to stderr by the step, as the positions they name.
NewlyReported ==
    [i \in 1 .. (Len(stderr') - Len(stderr)) |->
        IF stderr'[Len(stderr) + i].tag = "MissingClosing"
          THEN stderr'[Len(stderr) + i].at ELSE -1]

\* C8: a source that ends with '[' still pending fails with a SyntaxError
\* after the whole source is scanned (the pairs that do match are all in
\* the jump table), and every pending '[' position is reported.
C8_UnmatchedOpeningsReported ==
    [][(Called /\ FirstUnmatchedClose(script') = -1
               /\ UnmatchedOpens(script') # {}) =>
          /\ outcome' = Outcome("SyntaxError", -1)
          /\ pc' = "idle"
          /\ SubSeq(stderr', 1, Len(stderr)) = stderr
          /\ NewlyReported = Ascending(UnmatchedOpens(script'))
          /\ \A i \in BracketPositions(script') \ UnmatchedOpens(script') :
                /\ i \in DOMAIN JUMP_TABLE'
                /\ JUMP_TABLE'[i] = PartnerOf(script', i)]_vars

\* C8 witness: "[[" has failed and positions 0 and 1 were reported.
C8_Witness ==
    /\ script = <<"[", "[">>
    /\ outcome = Outcome("SyntaxError", -1)
    /\ Len(stderr) = 2
    /\ stderr[1].at = 0
    /\ stderr[2].at = 1

\* The characters of s that have an entry in COMMANDS, in order.
OnlyCommands(s) == SelectSeq(s, LAMBDA c : c \in COMMANDS)

\* C9: with strip_instructions = true the executed sequence is the source
\* without the characters that are not in the command registry; with
\* strip_instructions = false it is the source verbatim.
C9_StripKeepsOnlyCommands ==
    Parsed => INSTRUCTIONS = (IF strip_instructions THEN OnlyCommands(script)
                                                    ELSE script)

\* C10: for every bracket at index i of the executed sequence JUMP_TABLE[i]
\* is defined and is the index, in the executed sequence, of its partner.
C10_JumpTableIndexesExecuted ==
    Parsed => \A i \in BracketPositions(INSTRUCTIONS) :
                  /\ i \in DOMAIN JUMP_TABLE
                  /\ JUMP_TABLE[i] = PartnerOf(INSTRUCTIONS, i)

\* C11: for a source that begins with the strip marker '!', the marker is
\* not part of the executed sequence and the rest is filtered: the first
\* command after '!' has index 0 and unrecognized characters are dropped
\* ("!+x+." executes "++." and writes the byte 2).
C11_StripMarkerDropped ==
    (Parsed /\ Len(script) > 0 /\ script[1] = "!") =>
        INSTRUCTIONS = OnlyCommands(Tail(script))

\* C12 as stated: ',' at end-of-file changes neither memory nor DPTR and
\* raises nothing, and when a character b is available the cell at DPTR
\* becomes b.
C12_InputStoresEveryByte ==
    [][/\ (Executes(",") /\ Len(stdin) = 0) =>
            (ARRAY' = ARRAY /\ DPTR' = DPTR /\ pc' = "run")
       /\ (Executes(",") /\ Len(stdin) > 0 /\ HasCell(DPTR)) =>
            /\ ARRAY' = [ARRAY EXCEPT ![CellIndex(DPTR)] = Head(stdin)]
            /\ DPTR' = DPTR
            /\ pc' = "run"]_vars

\* C12, amended: ',' at end-of-file changes neither memory nor DPTR and
\* raises nothing; when an ASCII character b (0..127) is available the cell
\* at DPTR becomes b; "," run in a fresh process on empty input leaves the
\* cell 0 and returns 0.
C12_InputStoresAsciiByte ==
    [][/\ (Executes(",") /\ Len(stdin) = 0) =>
            /\ ARRAY' = ARRAY
            /\ DPTR' = DPTR
            /\ pc' = "run"
            /\ IPTR' = IPTR + 1
       /\ (Executes(",") /\ Len(stdin) > 0 /\ Head(stdin) \in 0 .. 127
                         /\ HasCell(DPTR)) =>
            /\ ARRAY' = [ARRAY EXCEPT ![CellIndex(DPTR)] = Head(stdin)]
            /\ DPTR' = DPTR
            /\ pc' = "run"
       /\ (Executes(",") /\ Len(stdin) = 0 /\ script = <<",">> /\ calls = 1) =>
            (ARRAY' = ZeroMemory /\ IPTR' = Len(INSTRUCTIONS))
       /\ (pc = "run" /\ script = <<",">> /\ calls = 1 /\ steps = 1
                      /\ pc' = "idle") =>
            outcome' = Outcome("return", 0)]_vars

\* C12 witness: ',' has met end-of-file on a cell that holds 1, and the
\* cell still holds 1.
C12_Witness ==
    /\ script = <<"+", ",", ".">>
    /\ calls = 1
    /\ stdin = << >>
    /\ stdout = <<1>>
    /\ ARRAY[0] = 1
    /\ outcome.kind = "return"

Hello == <<72, 101, 108, 108, 111>>

\* C13: HelloWorld run in a fresh process writes exactly the bytes 72, 101,
\* 108, 108, 111 in order and interpret returns 0: the run raises nothing,
\* what is written is always a prefix of "Hello", and the run is over, with
\* all of it written, after 870 passes of the loop.
C13_HelloWorld ==
    (calls = 1 /\ script = HelloWorld) =>
        /\ outcome.kind \in {"running", "return"}
        /\ Len(stdout) <= Len(Hello)
        /\ stdout = SubSeq(Hello, 1, Len(stdout))
        /\ steps <= 870
        /\ (steps = 870 => (IPTR = Len(INSTRUCTIONS) /\ stdout = Hello))
        /\ (outcome.kind = "return" => (stdout = Hello /\ steps = 870))

\* C13 witness: the first call, of HelloWorld, has returned 0 after
\* writing "Hello".
C13_Witness ==
    /\ calls = 1
    /\ script = HelloWorld
    /\ outcome = Outcome("return", 0)
    /\ stdout = Hello

\* C14: for every cell value v, '+' then '-' on the same cell, or '-' then
\* '+', leaves the cell holding v: a first call of "+" * v followed by "+-"
\* or by "-+" ends with v in the cell.
C14_IncrementDecrementRestores ==
    (/\ outcome.kind = "return"
     /\ Len(script) >= 2
     /\ SubSeq(script, Len(script) - 1, Len(script))
           \in {<<"+", "-">>, <<"-", "+">>}
     /\ \A i \in 1 .. (Len(script) - 2) : script[i] = "+"
     /\ calls = 1)
      => (DPTR = 0 /\ ARRAY[0] = (Len(script) - 2) % 256)

\* C14 witness: '-' then '+' on a cell that held 0 has put 0 back.
C14_Witness ==
    /\ script = <<"-", "+">>
    /\ outcome.kind = "return"
    /\ steps = 2
    /\ ARRAY[0] = 0

\* The pass fetches a bracket and the cell DPTR names is read.
OnBracket == Fetches /\ Command \in {"[", "]"} /\ HasCell(DPTR)

\* The bracket fetched sends the run to its partner.
Jumps == \/ Command = "[" /\ CellAt(DPTR) = 0
         \/ Command = "]" /\ CellAt(DPTR) # 0

\* C15: one pass of the loop on a bracket at position p leaves IPTR at
\* (position of the matching bracket) + 1 for '[' on a zero cell and for ']'
\* on a non-zero cell, and at p + 1 in the two other cases; memory and DPTR
\* are unchanged and the pass raises nothing.
C15_BracketStep ==
    [][OnBracket =>
          /\ IPTR' = (IF Jumps THEN PartnerOf(INSTRUCTIONS, IPTR) ELSE IPTR) + 1
          /\ pc' = "run"
          /\ ARRAY' = ARRAY
          /\ DPTR' = DPTR]_vars

\* The character at IPTR has no entry in COMMANDS.
OnUnrecognized ==
    /\ pc = "run"
    /\ IPTR >= 0
    /\ IPTR < Len(INSTRUCTIONS)
    /\ INSTRUCTIONS[IPTR + 1] \notin COMMANDS

\* C16: a character of INSTRUCTIONS with no entry in COMMANDS takes one pass
\* of the loop: IPTR goes up by 1, ARRAY, DPTR, JUMP_TABLE and what was
\* written to stdout are unchanged, and nothing is raised.
C16_UnrecognizedSkipped ==
    [][OnUnrecognized =>
          /\ IPTR' = IPTR + 1
          /\ steps' = steps + 1
          /\ pc' = "run"
          /\ outcome' = outcome
          /\ ARRAY' = ARRAY
          /\ DPTR' = DPTR
          /\ JUMP_TABLE' = JUMP_TABLE
          /\ stdout' = stdout]_vars

\* interpret("+x+.") has passed over the 'x'.
C16_Witness ==
    /\ calls = 1
    /\ script = <<"+", "x", "+", ".">>
    /\ INSTRUCTIONS = script
    /\ pc = "run"
    /\ IPTR = 2
    /\ steps = 2
    /\ ARRAY[0] = 1
    /\ stdout = << >>

\* The character at IPTR is '#', '#' is registered and DPTR is a position
\* of the memory.
OnDebug ==
    /\ pc = "run"
    /\ IPTR >= 0
    /\ IPTR < Len(INSTRUCTIONS)
    /\ INSTRUCTIONS[IPTR + 1] = "#"
    /\ "#" \in COMMANDS
    /\ DPTR \in Cells

\* C17: executing '#' with DPTR anywhere in 0 .. length-1, the positions
\* next to either end of the memory included, changes no cell, leaves DPTR
\* as it was and IPTR one further, and raises nothing; one line goes to
\* stderr.
C17_DebugChangesNothing ==
    [][OnDebug =>
          /\ ARRAY' = ARRAY
          /\ DPTR' = DPTR
          /\ IPTR' = IPTR + 1
          /\ pc' = "run"
          /\ outcome' = outcome
          /\ stdout' = stdout
          /\ Len(stderr') = Len(stderr) + 1]_vars

\* '#' was executed on the last cell of the memory.
C17_Witness ==
    /\ calls = 1
    /\ script = Repeat(">", BF_DEFAULT_MEMORY_SIZE - 1) \o <<"+", "#">>
    /\ outcome.kind = "return"
    /\ Len(stderr) = 1
    /\ stderr[1].tag = "Debug"
    /\ stderr[1].dptr = BF_DEFAULT_MEMORY_SIZE - 1
    /\ DPTR = BF_DEFAULT_MEMORY_SIZE - 1
    /\ ARRAY[BF_DEFAULT_MEMORY_SIZE - 1] = 1

\* C18: throughout the run of a bracket-balanced program 0 <= IPTR <=
\* len(INSTRUCTIONS) holds before each fetch: the IndexError for IPTR < 0 is
\* never raised and INSTRUCTIONS[IPTR] is never read past the end.
C18_InstructionPointerInRange ==
    (pc = "run" /\ Balanced(script)) =>
        (0 <= IPTR /\ IPTR <= Len(INSTRUCTIONS))

\* C19: '#' is a command only in an interpret call made with dump_state =
\* true; in a call made with dump_state = false the pass over a '#' is that
\* of an unrecognized character and writes nothing to stderr, whatever the
\* calls made before it in the process.
C19_DebugOnlyWhenAsked ==
    [][(/\ pc = "run"
        /\ ~dump_state
        /\ IPTR >= 0
        /\ IPTR < Len(INSTRUCTIONS)
        /\ INSTRUCTIONS[IPTR + 1] = "#") =>
          /\ stderr' = stderr
          /\ IPTR' = IPTR + 1
          /\ pc' = "run"]_vars

\* The first call of the process, with a source that holds no bracket.
BracketFree == calls = 1 /\ BracketPositions(script) = {}

\* The run is over: interpret returned or an exception left it.
Ended == pc = "idle"

\* The passes made so far each raised IPTR by 1; the one that raised, if
\* any, left IPTR where it was.
OnePerPass ==
    /\ steps <= Len(INSTRUCTIONS)
    /\ IPTR = (IF outcome.kind \in {"running", "return"} THEN steps ELSE steps - 1)

\* C20 as stated: a bracket-free program run from a fresh state ends either
\* cleanly with IPTR = len(INSTRUCTIONS) or with the IndexError of a data
\* pointer outside the memory.
C20_EndsCleanlyOrOutOfBounds ==
    (BracketFree /\ Ended) =>
        \/ outcome.kind = "return" /\ IPTR = Len(INSTRUCTIONS)
        \/ outcome.kind = "IndexError" /\ DPTR \notin Cells

\* C20, amended: a bracket-free program run from a fresh state makes at most
\* len(INSTRUCTIONS) passes, each raising IPTR by exactly 1, is never stuck
\* before its end, and ends cleanly with IPTR = len(INSTRUCTIONS), or with
\* the IndexError of a data pointer outside the memory, or with the
\* UnicodeEncodeError of a ',' that read a character outside ASCII.
C20_BracketFreeRunEnds ==
    /\ [](BracketFree =>
            /\ OnePerPass
            /\ (pc = "run" => ENABLED Step)
            /\ (Ended =>
                  \/ outcome.kind = "return" /\ IPTR = Len(INSTRUCTIONS)
                  \/ outcome.kind = "IndexError" /\ DPTR \notin Cells
                  \/ /\ outcome.kind = "UnicodeEncodeError"
                     /\ INSTRUCTIONS[IPTR + 1] = ","))
    /\ [][(BracketFree /\ pc = "run" /\ pc' = "run") => IPTR' = IPTR + 1]_vars

\* interpret("><-") in a fresh process has returned after three passes.
C20_Witness ==
    /\ calls = 1
    /\ script = <<">", "<", "-">>
    /\ outcome = Outcome("return", 0)
    /\ IPTR = 3
    /\ steps = 3
    /\ ARRAY[0] = 255

====
